---- MODULE Spec2Model ----
(***************************************************************************)
(* A model of the TFTP client of lib/tftpy.py: the packet codec, the       *)
(* option negotiation and TftpClient.download's receive loop.              *)
(*                                                                         *)
(* Byte strings are sequences of byte values (0..255).  A Python value     *)
(* that may be an int or a str is a record [t |-> "int"|"str", v |-> ...]. *)
(* A dict is a function from its keys.  None is the empty tuple <<>> where *)
(* a tuple may stand, and NoPort where a port may stand.                   *)
(***************************************************************************)
EXTENDS Integers, Sequences, FiniteSets, TLC

\* ---------------------------------------------------------------- constants
MIN_BLKSIZE == 8
DEF_BLKSIZE == 512
MAX_BLKSIZE == 65536
MAX_DUPS == 20
TIMEOUT_RETRIES == 5

\* ------------------------------------------------------------------- bounds
\* Highest block number the remote side puts in an in-range DAT datagram.
MaxBlock == 2
\* The network delivers a duplicate DAT datagram only while the duplicates of
\* all blocks but the most duplicated one stay within this number.
MaxOtherDups == 0
\* OACKs outside state rrq are delivered while self.errors is below this.
MaxErrors == 1
\* Duplicate DAT datagrams per download where every receive event is recorded.
MaxTracedDups == 1

\* ------------------------------------------------------------ Python values
IntVal(n) == [t |-> "int", v |-> n]
StrVal(s) == [t |-> "str", v |-> s]

\* Python 2 ordering of a value against an int: ints compare numerically, and
\* an int is smaller than any str.
PyGEInt(a, n) == IF a.t = "int" THEN a.v >= n ELSE TRUE
PyLEInt(a, n) == IF a.t = "int" THEN a.v <= n ELSE FALSE

\* The decimal digits of n >= 0, as ASCII.
Pow10(k) == CASE k = 0 -> 1 [] k = 1 -> 10 [] k = 2 -> 100 [] k = 3 -> 1000
              [] k = 4 -> 10000 [] k = 5 -> 100000 [] OTHER -> 1000000
NumDigits(n) == CHOOSE k \in 1..7 : (k = 7 \/ n < Pow10(k)) /\ (k = 1 \/ n >= Pow10(k - 1))
DecDigits(n) == [i \in 1..NumDigits(n) |-> 48 + ((n \div Pow10(NumDigits(n) - i)) % 10)]

\* str(x): decimal digits of an int, a str unchanged.
PyStr(a) == IF a.t = "int" THEN DecDigits(a.v) ELSE a.v

\* ASCII strings used by the code and by the environment.
S_blksize == <<98, 108, 107, 115, 105, 122, 101>>
S_tsize == <<116, 115, 105, 122, 101>>
S_octet == <<111, 99, 116, 101, 116>>
S_file == <<102>>

NoDict == [k \in {} |-> StrVal(<<>>)]

\* ------------------------------------------------------------------- struct
\* struct.pack("!H", n): two bytes, big-endian; struct.error outside 0..65535.
U16ok(n) == n >= 0 /\ n <= 65535
U16(n) == <<n \div 256, n % 256>>
\* struct.unpack("!H", b) of a two-byte string.
UnU16(b) == b[1] * 256 + b[2]

\* buffer[i:] and buffer[i:j] of Python (0-based, end excluded, clipped).
Min(a, b) == IF a < b THEN a ELSE b
SliceFrom(buf, i) == SubSeq(buf, Min(i, Len(buf)) + 1, Len(buf))
Slice(buf, i, j) == SubSeq(buf, Min(i, Len(buf)) + 1, Min(j, Len(buf)))

\* ------------------------------------------------------------ options codec
\* One fixed iteration order of a set of keys (a dict iterates in some fixed
\* order the program does not choose).
KeyOrder(S) == CHOOSE q \in [1..Cardinality(S) -> S] : {q[i] : i \in DOMAIN q} = S

\* setoptions: keys and values become str.
setoptions(opts) == [k \in DOMAIN opts |-> StrVal(PyStr(opts[k]))]

\* The option bytes TftpPacketInitial.encode and TftpPacketOACK.encode append:
\* key, NUL, str(value), NUL for each key (written out for up to four keys,
\* more than any option list here holds).
EncodeOption_unterminated(opts, keys, i) ==
    IF i > Len(keys) THEN <<>>
    ELSE keys[i] \o <<0>> \o PyStr(opts[keys[i]])
EncodeOption(opts, keys, i) ==
    IF i > Len(keys) THEN <<>>
    ELSE keys[i] \o <<0>> \o PyStr(opts[keys[i]]) \o <<0>>
EncodeOptionList(opts, keys) ==
    EncodeOption(opts, keys, 1) \o EncodeOption(opts, keys, 2)
    \o EncodeOption(opts, keys, 3) \o EncodeOption(opts, keys, 4)

encode_options(opts) == EncodeOptionList(opts, KeyOrder(DOMAIN opts))

\* The scan of decode_options: length counts the bytes since the last NUL; a
\* NUL at length 0 (the first byte, or right after a NUL) raises; every other
\* NUL closes a "%dsx" field; length is what follows the last NUL.
Nuls(buf) == {i \in 1..Len(buf) : buf[i] = 0}
NthNul(buf, k) == CHOOSE i \in Nuls(buf) : Cardinality({j \in Nuls(buf) : j < i}) = k - 1
FieldStart(buf, k) == IF k = 1 THEN 1 ELSE NthNul(buf, k - 1) + 1
LastNul(buf) == IF Nuls(buf) = {} THEN 0 ELSE NthNul(buf, Cardinality(Nuls(buf)))
ScanNulls(buf) ==
    [invalid |-> \E i \in Nuls(buf) : i = 1 \/ (i - 1) \in Nuls(buf),
     segs |-> [k \in 1..Cardinality(Nuls(buf)) |->
                  SubSeq(buf, FieldStart(buf, k), NthNul(buf, k) - 1)],
     length |-> Len(buf) - LastNul(buf)]

\* options[mystruct[i]] = mystruct[i+1] for i = 0, 2, ...: a later pair wins.
LastPair(segs, k) ==
    CHOOSE j \in 1..(Len(segs) \div 2) :
        /\ segs[2 * j - 1] = k
        /\ \A j2 \in 1..(Len(segs) \div 2) : segs[2 * j2 - 1] = k => j2 <= j
PairsToDict(segs) ==
    [k \in {segs[2 * j - 1] : j \in 1..(Len(segs) \div 2)} |->
        StrVal(segs[2 * LastPair(segs, k)])]

\* decode_options: [exc, options]; exc = "" when it returns.
Unpacked(r) ==
    IF r.invalid THEN [exc |-> "TftpException", options |-> NoDict]
    ELSE IF r.length # 0 THEN [exc |-> "struct.error", options |-> NoDict]
    ELSE IF Len(r.segs) % 2 # 0 THEN [exc |-> "TftpException", options |-> NoDict]
    ELSE [exc |-> "", options |-> PairsToDict(r.segs)]
decode_options(buffer) ==
    IF Len(buffer) = 0 THEN [exc |-> "", options |-> NoDict]
    ELSE Unpacked(ScanNulls(buffer))

\* ------------------------------------------------------------ packet codec
Packet(cls, blocknumber, data, opts) ==
    [exc |-> "", cls |-> cls, blocknumber |-> blocknumber, data |-> data, options |-> opts]
NoPacket(e) ==
    [exc |-> e, cls |-> "", blocknumber |-> 0, data |-> <<>>, options |-> NoDict]

\* TftpPacketInitial.encode for opcode 1, mode "octet".
EncodeRRQ(filename, opts) ==
    U16(1) \o filename \o <<0>> \o S_octet \o <<0>> \o encode_options(opts)

\* A packet with the opts decode_options made, or its exception.
WithOptions(cls, o) ==
    IF o.exc # "" THEN NoPacket(o.exc) ELSE Packet(cls, 0, <<>>, setoptions(o.options))

\* TftpPacketInitial.decode: filename and mode end at the first two NULs, the
\* rest is the option list.
DecodeInitial(cls, buffer) ==
    IF Cardinality(Nuls(SliceFrom(buffer, 2))) < 2 THEN NoPacket("TftpException")
    ELSE WithOptions(cls, decode_options(
             SliceFrom(SliceFrom(buffer, 2), NthNul(SliceFrom(buffer, 2), 2))))

\* TftpPacketDAT.encode and decode.
EncodeDAT(blocknumber, data) == U16(3) \o U16(blocknumber) \o data
DecodeDAT(buffer) ==
    IF Len(Slice(buffer, 2, 4)) # 2 THEN NoPacket("struct.error")
    ELSE Packet("DAT", UnU16(Slice(buffer, 2, 4)), SliceFrom(buffer, 4), NoDict)

\* TftpPacketACK.encode and decode.
EncodeACK(blocknumber) == U16(4) \o U16(blocknumber)
DecodeACK(buffer) ==
    IF Len(buffer) # 4 THEN NoPacket("struct.error")
    ELSE Packet("ACK", UnU16(Slice(buffer, 2, 4)), <<>>, NoDict)

errmsgs(c) ==
    CASE c = 1 -> <<70, 105, 108, 101, 32, 110, 111, 116, 32, 102, 111, 117, 110, 100>>
      [] c = 2 -> <<65, 99, 99, 101, 115, 115, 32, 118, 105, 111, 108, 97, 116, 105, 111, 110>>
      [] c = 3 -> <<68, 105, 115, 107, 32, 102, 117, 108, 108, 32, 111, 114, 32, 97, 108, 108,
                    111, 99, 97, 116, 105, 111, 110, 32, 101, 120, 99, 101, 101, 100, 101, 100>>
      [] c = 4 -> <<73, 108, 108, 101, 103, 97, 108, 32, 84, 70, 84, 80, 32, 111, 112, 101,
                    114, 97, 116, 105, 111, 110>>
      [] c = 5 -> <<85, 110, 107, 110, 111, 119, 110, 32, 116, 114, 97, 110, 115, 102, 101,
                    114, 32, 73, 68>>
      [] c = 6 -> <<70, 105, 108, 101, 32, 97, 108, 114, 101, 97, 100, 121, 32, 101, 120, 105,
                    115, 116, 115>>
      [] c = 7 -> <<78, 111, 32, 115, 117, 99, 104, 32, 117, 115, 101, 114>>
      [] c = 8 -> <<70, 97, 105, 108, 101, 100, 32, 116, 111, 32, 110, 101, 103, 111, 116,
                    105, 97, 116, 101, 32, 111, 112, 116, 105, 111, 110, 115>>

\* TftpPacketERR.encode and decode.
EncodeERR(errorcode) == U16(5) \o U16(errorcode) \o errmsgs(errorcode) \o <<0>>
DecodeERR(buffer) ==
    IF Len(buffer) < 5 THEN NoPacket("TftpException")
    ELSE Packet("ERR", UnU16(Slice(buffer, 2, 4)), Slice(buffer, 4, Len(buffer) - 1), NoDict)

\* TftpPacketOACK.encode and decode.
EncodeOACK(opts) == U16(6) \o encode_options(opts)
DecodeOACK(buffer) == WithOptions("OACK", decode_options(SliceFrom(buffer, 2)))

\* TftpPacketFactory.parse: the opcode picks the class, which decodes.
create(opcode, buffer) ==
    CASE opcode = 1 -> DecodeInitial("RRQ", buffer)
      [] opcode = 2 -> DecodeInitial("WRQ", buffer)
      [] opcode = 3 -> DecodeDAT(buffer)
      [] opcode = 4 -> DecodeACK(buffer)
      [] opcode = 5 -> DecodeERR(buffer)
      [] opcode = 6 -> DecodeOACK(buffer)
      [] OTHER -> NoPacket("TftpException")
parse(buffer) ==
    IF Len(Slice(buffer, 0, 2)) # 2 THEN NoPacket("struct.error")
    ELSE create(UnU16(Slice(buffer, 0, 2)), buffer)

\* TftpPacketOACK.match_options, self.options = offered, options = requested.
\* The outcomes of the loop over the offered names. A name that was not
\* requested is passed over. A requested name other than blksize raises
\* "Unsupported option". A requested blksize whose value compares within
\* MIN_BLKSIZE..MAX_BLKSIZE reaches the assignment to options[blksize], a
\* NameError (blksize is no name of the program). Otherwise the loop ends and
\* the result is True; no path returns False.
match_options(offered, options) ==
    LET unsupported == {name \in DOMAIN offered :
                           name \in DOMAIN options /\ name # S_blksize}
        assigns == {name \in DOMAIN offered :
                       /\ name \in DOMAIN options
                       /\ name = S_blksize
                       /\ PyGEInt(offered[name], MIN_BLKSIZE)
                       /\ PyLEInt(offered[name], MAX_BLKSIZE)}
        raised == (IF unsupported # {} THEN {"TftpException: Unsupported option"} ELSE {})
                  \cup (IF assigns # {} THEN {"NameError"} ELSE {})
    IN IF raised = {} THEN {"True"} ELSE raised

\* ------------------------------------------------------------- environment
\* The resolved address of the remote host (self.address) and another sender.
address == "server"
\* The configured request port (self.port).
port == 69
\* self.rport before a transfer port is learned (None).
NoPort == 0

\* The data of a datagram: n bytes whose values depend on n and the position.
Payload(n) == [i \in 1..n |-> (n + i) % 256]
DataLens == {0, 3, MIN_BLKSIZE}
\* Block numbers of the DAT datagrams: in range, and one far ahead.
BlockNumbers == (0..MaxBlock) \cup {MaxBlock + 3}

\* The option lists servers put in an OACK.
OfferedOptions ==
    { NoDict,
      [k \in {S_blksize} |-> StrVal(DecDigits(512))],
      [k \in {S_blksize} |-> StrVal(DecDigits(MIN_BLKSIZE))],
      [k \in {S_blksize} |-> StrVal(DecDigits(7))],
      [k \in {S_tsize} |-> StrVal(DecDigits(0))] }

\* Datagrams no decoder accepts: empty and one byte (no opcode), opcodes 0 and
\* 7, a DAT and an ACK cut short, an ERR cut short, option lists with an empty
\* string, with an unterminated string and with an odd number of strings, and
\* a WRQ with one NUL.
Malformed ==
    { <<>>, <<0>>, <<0, 0>>, <<0, 7>>, <<0, 3, 0>>, <<0, 4, 0>>, <<0, 5, 0, 1>>,
      <<0, 6, 0>>, <<0, 6, 98>>, <<0, 6, 98, 0>>, <<0, 2, 102, 0>> }

Datagrams ==
    {EncodeDAT(b, Payload(n)) : b \in BlockNumbers, n \in DataLens}
    \cup {EncodeOACK(o) : o \in OfferedOptions}
    \cup {EncodeACK(0), EncodeACK(1), EncodeERR(1)}
    \cup {EncodeRRQ(S_file, NoDict), U16(2) \o S_file \o <<0>> \o S_octet \o <<0>>}
    \cup Malformed

\* The options a caller passes to TftpClient(host, port, options).
UserOptions ==
    { NoDict,
      [k \in {S_blksize} |-> IntVal(MIN_BLKSIZE)],
      [k \in {S_tsize} |-> IntVal(0)],
      [k \in {S_blksize} |-> IntVal(7)],
      [k \in {S_blksize} |-> StrVal(DecDigits(MIN_BLKSIZE))] }

\* end_time - start_time of a download: zero (both readings of the clock agree)
\* or positive, in clock ticks.
Durations == {0, 1}

\* What recvfrom can return: a datagram, its source, and (computed once) the
\* packet parse makes of it. Every datagram can come from the port the server
\* answers from; from another port of the server and from another host come
\* a final DAT, an ACK and a datagram that does not parse.
Peer == <<"server", 3001>>
Strangers == {<<"server", 3002>>, <<"other", 3001>>}
StrayDatagrams == {EncodeDAT(1, Payload(3)), EncodeACK(1), <<0, 0>>}
Sources == {Peer} \cup Strangers
Received(b, src) == [buffer |-> b, raddress |-> src[1], rport |-> src[2], recvpkt |-> parse(b)]
Inputs ==
    {Received(b, Peer) : b \in Datagrams}
    \cup {Received(b, src) : b \in StrayDatagrams, src \in Strangers}
Unparsed == {d \in Inputs : d.recvpkt.exc # ""}
ParseErrors == {d.recvpkt.exc : d \in Unparsed}
Parsed == Inputs \ Unparsed
OfClass(C) == {d \in Parsed : d.recvpkt.cls \in C}
DATs == OfClass({"DAT"})
OACKs == OfClass({"OACK"})
Others == OfClass({"ACK", "ERR", "WRQ", "RRQ"})

\* -------------------------------------------------------------------- state
VARIABLES
    options,     \* self.options
    state,       \* self.state.state
    errors,      \* self.errors
    rport,       \* self.rport
    pc,          \* "idle", "recvfrom" (blocked in the receive loop), "returned", "raised"
    exc,         \* the exception download raised, "" if none
    retval,      \* what download returned (<<>> is None)
    outputfile,  \* [closed, data]: the sink and the bytes written to it
    sock,        \* [closed, sent]: the socket and the datagrams sent, [buf, port]
    curblock,    \* the last block acknowledged
    dups,        \* block number -> duplicates received
    bytes,       \* bytes transferred
    timeouts,    \* receive timeouts
    logged,      \* the closing report logged: <<bytes, duration, dupcount>>
    packethook,  \* download's packethook parameter: TRUE when a function is given
    hooked,      \* the calls of packethook: the packet, and what was sent and written
    accepted,    \* history: the datagrams of the peer that carried the next block
    recvd,       \* history: the last receive event, where events are recorded
    pkt          \* a TftpPacketOACK built apart from any download: [stage, given,
                 \* options, buffer, exc]

state_vars == <<options, state, errors, rport, pc, exc, retval, outputfile, sock,
                curblock, dups, bytes, timeouts, logged, packethook, hooked, accepted>>
vars == <<state_vars, recvd, pkt>>

States == {"nil", "rrq", "wrq", "dat", "oack", "ack", "err", "fin"}

\* TftpState.setState: a value outside the list is ignored.
setState(old, new) == IF new \in States THEN new ELSE old

\* TftpClient.__init__: [exc, options].
TftpClientInit(opts) ==
    IF S_blksize \in DOMAIN opts
    THEN IF opts[S_blksize].t # "int" THEN [exc |-> "TftpException", options |-> opts]
         ELSE IF opts[S_blksize].v < MIN_BLKSIZE \/ opts[S_blksize].v > MAX_BLKSIZE
              THEN [exc |-> "TftpException", options |-> opts]
              ELSE [exc |-> "", options |-> opts]
    ELSE [exc |-> "", options |-> [k \in DOMAIN opts \cup {S_blksize} |->
                                      IF k = S_blksize THEN IntVal(DEF_BLKSIZE) ELSE opts[k]]]

NoFile == [closed |-> TRUE, data |-> <<>>]
NoSock == [closed |-> TRUE, sent |-> <<>>]
NoDups == [b \in {} |-> 0]

\* Receive events.
NoEvent == [kind |-> "none", buffer |-> <<>>, raddress |-> "", rport |-> NoPort]
TimeoutEvent == [kind |-> "timeout", buffer |-> <<>>, raddress |-> "", rport |-> NoPort]
DatagramEvent(d) ==
    [kind |-> "datagram", buffer |-> d.buffer, raddress |-> d.raddress, rport |-> d.rport]

\* No packet object has been built.
NoPkt == [stage |-> "none", given |-> NoDict, options |-> NoDict, buffer |-> <<>>, exc |-> ""]

\* A client was constructed; download has not been called.
Constructed ==
    /\ \E o \in UserOptions :
          /\ TftpClientInit(o).exc = ""
          /\ options = TftpClientInit(o).options
    /\ state = "nil"
    /\ errors = 0
    /\ rport = NoPort
    /\ pc = "idle"
    /\ exc = ""
    /\ retval = <<>>
    /\ outputfile = NoFile
    /\ sock = NoSock
    /\ curblock = 0
    /\ dups = NoDups
    /\ bytes = 0
    /\ timeouts = 0
    /\ logged = <<>>
    /\ packethook = FALSE
    /\ hooked = <<>>
    /\ accepted = <<>>
    /\ recvd = NoEvent

Init == Constructed /\ pkt = NoPkt

\* sock.sendto(buf, (self.host, p)).
sendto(s, buf, p) == [s EXCEPT !.sent = Append(@, [buf |-> buf, port |-> p])]

\* outputfile.write(data).
write(f, data) == [f EXCEPT !.data = @ \o data]

\* download, up to the receive loop: open the output file and the socket, send
\* the RRQ to the request port, state rrq; hook tells whether the caller
\* gave a packethook.
Call(hook) ==
    /\ pc = "idle"
    /\ packethook' = hook
    /\ hooked' = <<>>
    /\ outputfile' = [closed |-> FALSE, data |-> <<>>]
    /\ curblock' = 0
    /\ dups' = NoDups
    /\ bytes' = 0
    /\ sock' = sendto([closed |-> FALSE, sent |-> <<>>], EncodeRRQ(S_file, options), port)
    /\ state' = setState(state, "rrq")
    /\ timeouts' = 0
    /\ pc' = "recvfrom"
    /\ UNCHANGED <<options, errors, rport, exc, retval, logged, accepted, recvd, pkt>>

\* raise: the call ends with the exception; nothing is closed on the way out.
Raise(e) == pc' = "raised" /\ exc' = e

E_timeouts == "TftpException: Hit max timeouts"
E_dups == "TftpException: Max duplicates"
E_block == "TftpException: Whoa! Received block"
E_ack == "TftpException: Received ACK"
E_negotiate == "TftpException: Failed to negotiate options"

\* The timeout budget is used up.
MaxTimeoutsHit_late(n) == n > TIMEOUT_RETRIES
MaxTimeoutsHit(n) == n >= TIMEOUT_RETRIES

\* sock.recvfrom times out.
OnTimeout ==
    /\ pc = "recvfrom"
    /\ timeouts' = timeouts + 1
    /\ IF MaxTimeoutsHit(timeouts + 1)
       THEN Raise(E_timeouts)
       ELSE UNCHANGED <<pc, exc>>
    /\ UNCHANGED <<options, state, errors, rport, retval, outputfile, sock,
                   curblock, dups, bytes, logged, pkt, packethook, hooked, accepted>>

\* The checks for the known "connection": the datagram is dropped.
Discarded(raddress, rp) ==
    \/ raddress # address
    \/ (rport # NoPort /\ rport # rp)

\* The remote port after a datagram that was not dropped.
LearnPort_never(rp) == rport
LearnPort(rp) == IF rport = NoPort /\ state = "rrq" THEN rp ELSE rport

\* The branches on a DAT packet and the end-of-file test.
InSequence_wrapped(blocknumber, cur) == blocknumber = (cur + 1) % 65536
InSequence_ahead(blocknumber, cur) == blocknumber >= cur + 1
InSequence(blocknumber, cur) == blocknumber = cur + 1
IsDuplicate_behind(blocknumber, cur) == blocknumber <= cur
IsDuplicate(blocknumber, cur) == blocknumber = cur
MaxDupsHit_early(n) == ~(n < MAX_DUPS - 1)
MaxDupsHit_late(n) == ~(n <= MAX_DUPS)
MaxDupsHit(n) == ~(n < MAX_DUPS)
EndOfFile_full(data, opts) == Len(data) <= opts[S_blksize].v
EndOfFile(data, opts) == Len(data) < opts[S_blksize].v

\* dups[curblock] += 1, or = 1 for a block seen the first time.
CountDup(d, b) == IF b \in DOMAIN d THEN [d EXCEPT ![b] = @ + 1] ELSE (b :> 1) @@ d

\* dupcount: the sum of the duplicate counters.
RECURSIVE SumDups(_, _)
SumDups(d, S) == IF S = {} THEN 0 ELSE LET b == CHOOSE x \in S : TRUE IN d[b] + SumDups(d, S \ {b})
DupCount(d) == SumDups(d, DOMAIN d)

\* The duplicates the network is allowed to deliver (the bound MaxOtherDups).
MaxDups(d) == IF DOMAIN d = {} THEN 0
              ELSE LET b == CHOOSE x \in DOMAIN d : \A y \in DOMAIN d : d[y] <= d[x] IN d[b]
Deliverable(d) == DupCount(d) - MaxDups(d) <= MaxOtherDups

\* The code after the loop: close the output file, log the report; the rate
\* divides by the duration; nothing is returned.
Finish(file, nbytes, duration) ==
    /\ outputfile' = [file EXCEPT !.closed = TRUE]
    /\ IF duration = 0
       THEN Raise("ZeroDivisionError") /\ UNCHANGED <<logged, retval>>
       ELSE /\ logged' = <<nbytes, duration, DupCount(dups)>>
            /\ pc' = "returned"
            /\ retval' = <<>>
            /\ exc' = exc

\* if packethook: packethook(recvpkt), after the ACK was sent and the data
\* written. A call is recorded with the packet it got, the last datagram sent
\* and the number of bytes written before it.
HookCall(recvpkt, s, f) ==
    [blocknumber |-> recvpkt.blocknumber, data |-> recvpkt.data,
     sent |-> s.sent[Len(s.sent)].buf, written |-> Len(f.data)]
Hook_twice(h, recvpkt, s, f) ==
    Append(Append(h, HookCall(recvpkt, s, f)), HookCall(recvpkt, s, f))
Hook(h, recvpkt, s, f) ==
    IF packethook THEN Append(h, HookCall(recvpkt, s, f)) ELSE h

\* History: a DAT datagram of the peer that carries the block after the ones
\* recorded is recorded (wire format: opcode 3, block number, data).
WireBlock(buffer) == buffer[3] * 256 + buffer[4]
WireData(buffer) == SubSeq(buffer, 5, Len(buffer))
Record(d) ==
    IF WireBlock(d.buffer) = Len(accepted) + 1 THEN Append(accepted, d.buffer) ELSE accepted

\* One pass of the loop on a datagram that does not parse: parse raises before
\* the sender is looked at.
OnUnparsed(e) ==
    /\ pc = "recvfrom"
    /\ Raise(e)
    /\ UNCHANGED <<options, state, errors, rport, retval, outputfile, sock,
                   curblock, dups, bytes, timeouts, logged, pkt, packethook, hooked,
                   accepted>>

\* One pass of the loop on a datagram from another address or port.
OnDiscard ==
    /\ pc = "recvfrom"
    /\ UNCHANGED <<state_vars, pkt>>

\* One pass of the loop on the next DAT block: ACK it, write it, and leave the
\* loop on a short block.
OnNextDAT(d) ==
    /\ pc = "recvfrom"
    /\ ~Discarded(d.raddress, d.rport)
    /\ InSequence(d.recvpkt.blocknumber, curblock)
    /\ rport' = LearnPort(d.rport)
    /\ curblock' = curblock + 1
    /\ accepted' = Record(d)
    /\ IF LearnPort(d.rport) = NoPort \/ ~U16ok(curblock + 1)
       THEN /\ Raise(IF U16ok(curblock + 1) THEN "TypeError" ELSE "struct.error")
            /\ UNCHANGED <<sock, outputfile, bytes, logged, retval, hooked>>
       ELSE /\ sock' = sendto(sock, EncodeACK(curblock + 1), LearnPort(d.rport))
            /\ bytes' = bytes + Len(d.recvpkt.data)
            /\ hooked' = Hook(hooked, d.recvpkt,
                              sendto(sock, EncodeACK(curblock + 1), LearnPort(d.rport)),
                              write(outputfile, d.recvpkt.data))
            /\ IF EndOfFile(d.recvpkt.data, options)
               THEN \E duration \in Durations :
                       Finish(write(outputfile, d.recvpkt.data),
                              bytes + Len(d.recvpkt.data), duration)
               ELSE /\ outputfile' = write(outputfile, d.recvpkt.data)
                    /\ UNCHANGED <<pc, exc, logged, retval>>
    /\ UNCHANGED <<options, state, errors, dups, timeouts, pkt, packethook>>

\* One pass of the loop on a DAT block that is not the next one: a duplicate of
\* the last block is counted and ACKed again, any other block is fatal.
OnOtherDAT(d) ==
    /\ pc = "recvfrom"
    /\ ~Discarded(d.raddress, d.rport)
    /\ ~InSequence(d.recvpkt.blocknumber, curblock)
    /\ rport' = LearnPort(d.rport)
    /\ accepted' = Record(d)
    /\ IF IsDuplicate(d.recvpkt.blocknumber, curblock)
       THEN /\ dups' = CountDup(dups, curblock)
            /\ IF MaxDupsHit(CountDup(dups, curblock)[curblock])
               THEN Raise(E_dups) /\ UNCHANGED sock
               ELSE IF LearnPort(d.rport) = NoPort
                    THEN Raise("TypeError") /\ UNCHANGED sock
                    ELSE /\ sock' = sendto(sock, EncodeACK(curblock), LearnPort(d.rport))
                         /\ UNCHANGED <<pc, exc>>
       ELSE /\ Raise(E_block)
            /\ UNCHANGED <<dups, sock>>
    /\ UNCHANGED <<options, state, errors, retval, outputfile, curblock, bytes,
                   timeouts, logged, pkt, packethook, hooked>>

\* One pass of the loop on an OACK: outside state rrq it is counted as an error
\* and skipped; in state rrq the options are matched and ACK 0 is sent.
OnOACK(d) ==
    /\ pc = "recvfrom"
    /\ ~Discarded(d.raddress, d.rport)
    /\ rport' = LearnPort(d.rport)
    /\ IF state # "rrq"
       THEN /\ errors < MaxErrors
            /\ errors' = errors + 1
            /\ UNCHANGED <<state, sock, pc, exc>>
       ELSE /\ errors' = errors
            /\ \E matched \in match_options(d.recvpkt.options, options) :
                  CASE matched = "True" ->
                         IF LearnPort(d.rport) = NoPort
                         THEN /\ state' = setState(state, "oack")
                              /\ Raise("TypeError") /\ UNCHANGED sock
                         ELSE /\ sock' = sendto(sock, EncodeACK(0), LearnPort(d.rport))
                              /\ state' = setState(setState(state, "oack"), "ack")
                              /\ UNCHANGED <<pc, exc>>
                    [] matched = "False" ->
                         /\ sock' = sendto(sock, EncodeERR(8), LearnPort(d.rport))
                         /\ state' = setState(setState(state, "oack"), "err")
                         /\ Raise(E_negotiate)
                    [] OTHER ->
                         /\ state' = setState(state, "oack")
                         /\ Raise(matched) /\ UNCHANGED sock
    /\ UNCHANGED <<options, retval, outputfile, curblock, dups, bytes, timeouts,
                   logged, pkt, packethook, hooked, accepted>>

\* One pass of the loop on an ACK, an ERR, a WRQ or any other packet: state err
\* and an exception (for all but the ACK, from adding the packet to the message).
OnFatal_answered(d) ==
    /\ pc = "recvfrom"
    /\ ~Discarded(d.raddress, d.rport)
    /\ rport' = LearnPort(d.rport)
    /\ state' = setState(state, "err")
    /\ sock' = sendto(sock, EncodeERR(4), LearnPort(d.rport))
    /\ Raise(IF d.recvpkt.cls = "ACK" THEN E_ack ELSE "TypeError")
    /\ UNCHANGED <<options, errors, retval, outputfile, curblock, dups, bytes,
                   timeouts, logged, pkt, packethook, hooked, accepted>>
OnFatal(d) ==
    /\ pc = "recvfrom"
    /\ ~Discarded(d.raddress, d.rport)
    /\ rport' = LearnPort(d.rport)
    /\ state' = setState(state, "err")
    /\ Raise(IF d.recvpkt.cls = "ACK" THEN E_ack ELSE "TypeError")
    /\ UNCHANGED <<options, errors, retval, outputfile, sock, curblock, dups, bytes,
                   timeouts, logged, pkt, packethook, hooked, accepted>>

\* --------------------------------------------------------- the download
\* The receive loop against a network that loses, duplicates and reorders
\* datagrams and against other senders; receive events are not recorded.
\* download is called without a packethook.
Download == Call(FALSE)
Timeout == OnTimeout /\ UNCHANGED recvd
RecvUnparsed ==
    /\ pc = "recvfrom"
    /\ \E e \in ParseErrors : OnUnparsed(e)
    /\ UNCHANGED recvd
RecvDiscard ==
    /\ pc = "recvfrom"
    /\ {d \in Parsed : Discarded(d.raddress, d.rport)} # {}
    /\ OnDiscard
    /\ UNCHANGED recvd
RecvNextDAT ==
    /\ pc = "recvfrom"
    /\ \E d \in DATs : OnNextDAT(d)
    /\ UNCHANGED recvd
RecvOtherDAT ==
    /\ pc = "recvfrom"
    /\ \E d \in DATs :
          /\ IsDuplicate(d.recvpkt.blocknumber, curblock) => Deliverable(CountDup(dups, curblock))
          /\ OnOtherDAT(d)
    /\ UNCHANGED recvd
RecvOACK ==
    /\ pc = "recvfrom"
    /\ \E d \in OACKs : OnOACK(d)
    /\ UNCHANGED recvd
RecvFatal ==
    /\ pc = "recvfrom"
    /\ \E d \in Others : OnFatal(d)
    /\ UNCHANGED recvd

Next ==
    \/ Download
    \/ Timeout
    \/ RecvUnparsed
    \/ RecvDiscard
    \/ RecvNextDAT
    \/ RecvOtherDAT
    \/ RecvOACK
    \/ RecvFatal

Spec == Init /\ [][Next]_vars

\* ------------------------------------------- the download, events recorded
\* The same loop with every receive event recorded in recvd, against a
\* network that duplicates at most MaxTracedDups datagrams. The datagrams of
\* other senders are the StrayDatagrams, from either source: the loop drops
\* a parsed datagram of another sender without looking at the packet.
\* download is called with or without a packethook.
TracedDownload == \E hook \in BOOLEAN : Call(hook)
TracedTimeout == OnTimeout /\ recvd' = TimeoutEvent
TracedUnparsed ==
    /\ pc = "recvfrom"
    /\ \E d \in Unparsed : OnUnparsed(d.recvpkt.exc) /\ recvd' = DatagramEvent(d)
Strays == {d \in Parsed : d.buffer \in StrayDatagrams}
TracedDiscard ==
    /\ pc = "recvfrom"
    /\ \E d \in Strays :
          Discarded(d.raddress, d.rport) /\ OnDiscard /\ recvd' = DatagramEvent(d)
TracedNextDAT ==
    /\ pc = "recvfrom"
    /\ \E d \in DATs : OnNextDAT(d) /\ recvd' = DatagramEvent(d)
TracedOtherDAT ==
    /\ pc = "recvfrom"
    /\ \E d \in DATs :
          /\ IsDuplicate(d.recvpkt.blocknumber, curblock) => DupCount(dups) < MaxTracedDups
          /\ OnOtherDAT(d)
          /\ recvd' = DatagramEvent(d)
TracedOACK ==
    /\ pc = "recvfrom"
    /\ \E d \in OACKs : OnOACK(d) /\ recvd' = DatagramEvent(d)
TracedFatal ==
    /\ pc = "recvfrom"
    /\ \E d \in Others : OnFatal(d) /\ recvd' = DatagramEvent(d)

NextTraced ==
    \/ TracedDownload
    \/ TracedTimeout
    \/ TracedUnparsed
    \/ TracedDiscard
    \/ TracedNextDAT
    \/ TracedOtherDAT
    \/ TracedOACK
    \/ TracedFatal

SpecTraced == Init /\ [][NextTraced]_vars

\* The same download where the call is made and the loop never stands still:
\* recvfrom on a socket with a timeout always comes back, with a datagram or
\* with socket.timeout, and the loop then handles what it got. Which of the
\* events comes is up to the network.
SpecLive == Init /\ [][NextTraced]_vars /\ WF_vars(NextTraced)

\* ------------------------------------------------------- duplicates at will
\* A download whose peer sends DAT blocks only, and repeats the last block as
\* often as it likes: the network puts no limit on the duplicates.
RecvRepeatedDAT ==
    /\ pc = "recvfrom"
    /\ \E d \in DATs : OnOtherDAT(d)
    /\ UNCHANGED recvd

NextDups ==
    \/ Download
    \/ RecvNextDAT
    \/ RecvRepeatedDAT

SpecDups == Init /\ [][NextDups]_vars

\* ------------------------------------------------------- one client, again
\* download is called again on the same client after a call has ended, with
\* the same arguments: the locals are new, the state is set to rrq, and the
\* attributes of the client that download does not assign (options, errors,
\* rport) are as the earlier call left them. The histories start again.
DownloadAgain ==
    /\ pc \in {"returned", "raised"}
    /\ outputfile' = [closed |-> FALSE, data |-> <<>>]
    /\ curblock' = 0
    /\ dups' = NoDups
    /\ bytes' = 0
    /\ sock' = sendto([closed |-> FALSE, sent |-> <<>>], EncodeRRQ(S_file, options), port)
    /\ state' = setState(state, "rrq")
    /\ timeouts' = 0
    /\ pc' = "recvfrom"
    /\ exc' = ""
    /\ retval' = <<>>
    /\ logged' = <<>>
    /\ hooked' = <<>>
    /\ accepted' = <<>>
    /\ recvd' = NoEvent
    /\ UNCHANGED <<options, errors, rport, packethook, pkt>>

NextSessions ==
    \/ TracedDownload
    \/ DownloadAgain
    \/ TracedTimeout
    \/ TracedUnparsed
    \/ TracedDiscard
    \/ TracedNextDAT
    \/ TracedOtherDAT
    \/ TracedOACK
    \/ TracedFatal

SpecSessions == Init /\ [][NextSessions]_vars

\* ------------------------------------------------- the last block numbers
\* A long download with blksize 8 whose peer has had all blocks up to
\* MaxU16 - BlocksBeforeWrap accepted, each a full block; what was written and
\* sent up to there is left out, and the file, the datagrams sent and the
\* histories are recorded from this point on. The peer goes on with DAT
\* blocks numbered up to MaxU16 and then with the wrapped number 0.
MaxU16 == 65535
BlocksBeforeWrap == 2
WrapBlocks == ((MaxU16 - BlocksBeforeWrap)..MaxU16) \cup {0}
WrapDATs ==
    {Received(EncodeDAT(b, Payload(n)), Peer) : b \in WrapBlocks, n \in {3, MIN_BLKSIZE}}

InitWrap ==
    /\ options = [k \in {S_blksize} |-> IntVal(MIN_BLKSIZE)]
    /\ state = "rrq"
    /\ errors = 0
    /\ rport = Peer[2]
    /\ pc = "recvfrom"
    /\ exc = ""
    /\ retval = <<>>
    /\ outputfile = [closed |-> FALSE, data |-> <<>>]
    /\ sock = [closed |-> FALSE, sent |-> <<>>]
    /\ curblock = MaxU16 - BlocksBeforeWrap
    /\ dups = NoDups
    /\ bytes = MIN_BLKSIZE * (MaxU16 - BlocksBeforeWrap)
    /\ timeouts = 0
    /\ logged = <<>>
    /\ packethook = FALSE
    /\ hooked = <<>>
    /\ accepted = <<>>
    /\ recvd = NoEvent
    /\ pkt = NoPkt

WrapNextDAT ==
    /\ pc = "recvfrom"
    /\ \E d \in WrapDATs : OnNextDAT(d) /\ recvd' = DatagramEvent(d)
WrapOtherDAT ==
    /\ pc = "recvfrom"
    /\ \E d \in WrapDATs :
          /\ IsDuplicate(d.recvpkt.blocknumber, curblock) => DupCount(dups) < MaxTracedDups
          /\ OnOtherDAT(d)
          /\ recvd' = DatagramEvent(d)

NextWrap ==
    \/ TracedTimeout
    \/ WrapNextDAT
    \/ WrapOtherDAT

SpecWrap == InitWrap /\ [][NextWrap]_vars

\* ------------------------------------------------------------ the OACK codec
\* A TftpPacketOACK is given an option mapping, encoded, and its buffer is
\* decoded by a second TftpPacketOACK, as parse does with a received buffer.
OptionNames == {S_blksize, S_tsize, <<>>}
OptionValues == {StrVal(<<>>), StrVal(<<56>>), StrVal(DecDigits(DEF_BLKSIZE))}
OptionMappings == UNION {[D -> OptionValues] : D \in SUBSET OptionNames}

\* pkt = TftpPacketOACK(); pkt.options = m.
InitCodec ==
    /\ Constructed
    /\ \E m \in OptionMappings :
          pkt = [stage |-> "options", given |-> m, options |-> setoptions(m),
                 buffer |-> <<>>, exc |-> ""]

\* pkt.encode().
CodecEncode ==
    /\ pkt.stage = "options"
    /\ pkt' = [pkt EXCEPT !.stage = "encoded", !.buffer = EncodeOACK(pkt.options)]
    /\ UNCHANGED <<state_vars, recvd>>

\* A packet made from the buffer, then decode(): its options, or the exception
\* decode raised.
CodecDecode ==
    /\ pkt.stage = "encoded"
    /\ pkt' = [pkt EXCEPT !.stage = "decoded",
                          !.options = DecodeOACK(pkt.buffer).options,
                          !.exc = DecodeOACK(pkt.buffer).exc]
    /\ UNCHANGED <<state_vars, recvd>>

NextCodec == CodecEncode \/ CodecDecode

SpecCodec == InitCodec /\ [][NextCodec]_vars

TypeOK ==
    /\ state \in States
    /\ pc \in {"idle", "recvfrom", "returned", "raised"}
    /\ curblock \in 0..MaxBlock
    /\ timeouts \in 0..TIMEOUT_RETRIES
    /\ errors \in 0..MaxErrors

\* -------------------------------------------------------------- properties
\* The data of the first n recorded blocks, in block order.
RECURSIVE BlocksData(_, _)
BlocksData(blocks, n) ==
    IF n = 0 THEN <<>> ELSE BlocksData(blocks, n - 1) \o WireData(blocks[n])

\* The buffers sent, in order, and the number of ACKs sent for block b.
SentBuffers == [i \in 1..Len(sock.sent) |-> sock.sent[i].buf]
CountAcks(b) ==
    LET ack == EncodeACK(b)
    IN Cardinality({i \in 1..Len(sock.sent) : sock.sent[i].buf = ack})

\* The step receives a datagram of the peer that parses as a packet of class C.
ReceivesFromPeer(C) ==
    /\ pc = "recvfrom"
    /\ recvd'.kind = "datagram"
    /\ ~Discarded(recvd'.raddress, recvd'.rport)
    /\ parse(recvd'.buffer).cls = C

\* The last event is a datagram from the learned port that parses as class C.
LastFromPeer(C) ==
    /\ recvd.kind = "datagram"
    /\ recvd.raddress = address
    /\ recvd.rport = rport
    /\ parse(recvd.buffer).cls = C

\* The value of a string of decimal digits.
IsDigits(str) == Len(str) > 0 /\ \A i \in 1..Len(str) : str[i] \in 48..57
RECURSIVE DecValue(_)
DecValue(str) ==
    IF str = <<>> THEN 0
    ELSE 10 * DecValue(SubSeq(str, 1, Len(str) - 1)) + (str[Len(str)] - 48)

\* An offered option value that is a number within MIN_BLKSIZE..MAX_BLKSIZE.
OfferedInRange(a) ==
    /\ a.t = "str"
    /\ IsDigits(a.v)
    /\ DecValue(a.v) >= MIN_BLKSIZE
    /\ DecValue(a.v) <= MAX_BLKSIZE

\* C1: in every state of a download the bytes written to the output file are
\* the data of DAT blocks 1..curblock of the peer, concatenated in block order,
\* each block once; nothing else is ever written.
C1_SinkIsAcceptedBlocks ==
    /\ Len(accepted) = curblock
    /\ \A k \in 1..Len(accepted) : WireBlock(accepted[k]) = k
    /\ outputfile.data = BlocksData(accepted, curblock)

\* C1 witness: two blocks were written after a duplicate, a timeout and an
\* OACK that was skipped, and the download returned.
C1_TwoBlocksWritten ==
    /\ pc = "returned"
    /\ curblock = 2
    /\ DupCount(dups) > 0
    /\ timeouts > 0
    /\ errors > 0
    /\ Len(outputfile.data) = MIN_BLKSIZE + 3

\* C2: when a download completes, the call returns (bytes transferred, elapsed
\* seconds, duplicate count), the bytes transferred being the sum of the data
\* lengths of the accepted blocks and the duplicate count the number of
\* duplicate DAT datagrams over all blocks.
C2_ReturnsTotals ==
    pc = "returned" =>
       /\ retval = <<Len(BlocksData(accepted, curblock)), logged[2], DupCount(dups)>>
       /\ bytes = Len(BlocksData(accepted, curblock))

\* C2 scenario, with the block size MIN_BLKSIZE: DAT 1 (a full block), DAT 1
\* again, DAT 2 (3 bytes). ACK 1 is sent twice and ACK 2 once, the totals are
\* logged, and the call returns nothing.
C2_Scenario ==
    /\ pc = "returned"
    /\ options[S_blksize].v = MIN_BLKSIZE
    /\ SentBuffers = <<EncodeRRQ(S_file, options), EncodeACK(1), EncodeACK(1), EncodeACK(2)>>
    /\ logged[1] = MIN_BLKSIZE + 3
    /\ logged[3] = 1
    /\ retval = <<>>

\* C3: the state follows nil -> rrq -> (oack -> ack) -> dat -> fin: rrq (or ack
\* after a negotiation) while no block is accepted, dat after each accepted
\* block, fin when the call has ended successfully.
C3_StatePath ==
    /\ (pc = "idle" => state = "nil")
    /\ (pc = "recvfrom" /\ curblock = 0 => state \in {"rrq", "ack"})
    /\ (pc = "recvfrom" /\ curblock > 0 => state = "dat")
    /\ (pc = "returned" => state = "fin")

\* C3: a download that ended successfully with the state still rrq.
C3_ReturnedInRrq == pc = "returned" /\ curblock > 0 /\ state = "rrq"

\* C4: every fatal abort of a download leaves the state err (the division by
\* a zero duration, which is no abort of the protocol, is left out).
C4_AbortLeavesErr == pc = "raised" /\ exc # "ZeroDivisionError" => state = "err"

\* C4: the download gave up after TIMEOUT_RETRIES timeouts in state rrq.
C4_TimedOutInRrq == pc = "raised" /\ exc = E_timeouts /\ state = "rrq"

\* C5: whenever a download call has ended, by return or by exception, the
\* socket and the output file are closed.
C5_ResourcesClosed == pc \in {"returned", "raised"} => outputfile.closed /\ sock.closed

\* C5: a download that returned with its socket open.
C5_ReturnedSocketOpen == pc = "returned" /\ outputfile.closed /\ ~sock.closed

\* C6: as long as nothing arrived from the peer (only timeouts, and datagrams
\* that were dropped), the RRQ is the one packet sent, nothing is written, and
\* the call fails, with the max-timeouts error, exactly when the
\* TIMEOUT_RETRIES-th timeout has happened.
C6_NoReply ==
    pc # "idle" /\ rport = NoPort /\ exc \in {"", E_timeouts} =>
       /\ sock.sent = <<[buf |-> EncodeRRQ(S_file, options), port |-> port]>>
       /\ outputfile.data = <<>>
       /\ timeouts <= TIMEOUT_RETRIES
       /\ (pc = "raised" <=> timeouts = TIMEOUT_RETRIES)
       /\ (pc = "raised" => exc = E_timeouts)
       /\ (pc # "raised" => pc = "recvfrom")

\* C6 witness: the download failed at the fifth timeout with nothing received.
C6_FifthTimeout ==
    /\ pc = "raised"
    /\ exc = E_timeouts
    /\ rport = NoPort
    /\ timeouts = 5
    /\ Len(sock.sent) = 1

\* C7: a DAT from the peer whose block number is neither curblock + 1 nor
\* curblock ends the download at once with the sequence error: nothing is sent
\* in response, nothing is written, curblock stays; and nothing happens after
\* a download has failed.
C7_OutOfSequenceFails ==
    [][ /\ (ReceivesFromPeer("DAT")
            /\ parse(recvd'.buffer).blocknumber \notin {curblock, curblock + 1})
           => /\ pc' = "raised"
              /\ exc' = E_block
              /\ sock' = sock
              /\ outputfile' = outputfile
              /\ curblock' = curblock
        /\ pc # "raised" ]_vars

\* C7 witness: DAT block 5 arrived from the peer first and the download failed
\* with only the RRQ sent.
C7_BlockFiveAtZero ==
    /\ LastFromPeer("DAT")
    /\ parse(recvd.buffer).blocknumber = MaxBlock + 3
    /\ curblock = 0
    /\ pc = "raised"
    /\ exc = E_block
    /\ Len(sock.sent) = 1
    /\ outputfile.data = <<>>

\* C8 (as the code has it): a duplicate counter never passes MAX_DUPS; the
\* download fails with the duplicate-budget error exactly when the counter of
\* the last block reaches MAX_DUPS, at the MAX_DUPS-th duplicate, which is not
\* answered; every duplicate before it is answered with one more ACK.
C8_DuplicateBudget ==
    /\ \A b \in DOMAIN dups : dups[b] >= 1 /\ dups[b] <= MAX_DUPS
    /\ \A b \in DOMAIN dups :
          dups[b] = MAX_DUPS => b = curblock /\ pc = "raised" /\ exc = E_dups
    /\ exc = E_dups => curblock \in DOMAIN dups /\ dups[curblock] = MAX_DUPS
    /\ \A b \in 1..curblock :
          CountAcks(b) = 1 + (IF b \in DOMAIN dups THEN Min(dups[b], MAX_DUPS - 1) ELSE 0)

\* C8 witness: the 20th duplicate of an accepted block ended the download;
\* the block was ACKed once and 19 times again.
C8_TwentiethDuplicateFails ==
    /\ pc = "raised"
    /\ exc = E_dups
    /\ curblock >= 1
    /\ dups[curblock] = 20
    /\ CountAcks(curblock) = 20

\* C8 as stated: the first 20 duplicates of an accepted block are each
\* answered with an ACK and the download fails only on the 21st.
C8_FailsOnTwentyFirst ==
    exc = E_dups =>
       /\ dups[curblock] = MAX_DUPS + 1
       /\ (curblock >= 1 => CountAcks(curblock) = 1 + MAX_DUPS)

\* The rule of C9: every offered name was requested, and an offered blksize is
\* within MIN_BLKSIZE..MAX_BLKSIZE.
Acceptable(offered, requested) ==
    /\ DOMAIN offered \subseteq DOMAIN requested
    /\ (S_blksize \in DOMAIN offered => OfferedInRange(offered[S_blksize]))

\* C9: matching the options of an OACK against the requested options succeeds
\* when every offered name was requested and an offered blksize is in range,
\* and fails when a name was not requested or the blksize is out of range.
C9_MatchOptions ==
    [][ ReceivesFromPeer("OACK") /\ state = "rrq" =>
           IF Acceptable(parse(recvd'.buffer).options, options)
           THEN match_options(parse(recvd'.buffer).options, options) = {"True"}
           ELSE "True" \notin match_options(parse(recvd'.buffer).options, options) ]_vars

\* C9: an OACK offering blksize 7 was matched and acknowledged.
C9_SevenAccepted ==
    /\ LastFromPeer("OACK")
    /\ errors = 0
    /\ S_blksize \in DOMAIN parse(recvd.buffer).options
    /\ parse(recvd.buffer).options[S_blksize] = StrVal(DecDigits(7))
    /\ state = "ack"
    /\ SentBuffers = <<EncodeRRQ(S_file, options), EncodeACK(0)>>

\* C10: after a successful negotiation the blksize the session uses is the
\* offered one, when it is within MIN_BLKSIZE..MAX_BLKSIZE, and the options
\* the OACK does not name keep their requested values.
C10_AdoptsOffered ==
    [][ ReceivesFromPeer("OACK") /\ state = "rrq" /\ state' = "ack" =>
           /\ DOMAIN options' = DOMAIN options
           /\ \A k \in DOMAIN options \ DOMAIN parse(recvd'.buffer).options :
                 options'[k] = options[k]
           /\ (S_blksize \in DOMAIN parse(recvd'.buffer).options
               /\ OfferedInRange(parse(recvd'.buffer).options[S_blksize])
               => options'[S_blksize].v = DecValue(parse(recvd'.buffer).options[S_blksize].v))
      ]_vars

\* C10: an OACK offering blksize 512 was acknowledged and the session still
\* uses the requested blksize 8.
C10_KeepsRequested ==
    /\ LastFromPeer("OACK")
    /\ errors = 0
    /\ S_blksize \in DOMAIN parse(recvd.buffer).options
    /\ parse(recvd.buffer).options[S_blksize] = StrVal(DecDigits(DEF_BLKSIZE))
    /\ state = "ack"
    /\ options[S_blksize] = IntVal(MIN_BLKSIZE)

\* C11: a datagram from another address, or from another port than the learned
\* one, is dropped whatever its bytes are: nothing is sent or written, and
\* curblock, the state, the learned port, every counter and the position in
\* the loop stay as they were.
C11_DroppedHasNoEffect ==
    [][ (pc = "recvfrom"
         /\ recvd'.kind = "datagram"
         /\ Discarded(recvd'.raddress, recvd'.rport))
        => UNCHANGED state_vars ]_vars

\* C11: a datagram of another host that does not parse ended the download.
C11_StrangerEndsDownload ==
    /\ recvd.kind = "datagram"
    /\ recvd.raddress # address
    /\ parse(recvd.buffer).exc # ""
    /\ pc = "raised"
    /\ exc = parse(recvd.buffer).exc

\* C12: when a packethook is given it is called once for each accepted DAT
\* block, in block order, with that block's packet, after the block's ACK was
\* sent and its data written; it is called for nothing else, and not at all
\* when none is given.
C12_HookPerAcceptedBlock ==
    /\ ~packethook => hooked = <<>>
    /\ packethook =>
          /\ Len(hooked) = Len(accepted)
          /\ \A k \in 1..Len(hooked) :
                /\ hooked[k].blocknumber = k
                /\ hooked[k].data = WireData(accepted[k])
                /\ hooked[k].sent = EncodeACK(k)
                /\ hooked[k].written = Len(BlocksData(accepted, k))

\* C12 witness: two blocks were accepted around a duplicate, a dropped
\* datagram came last, and the packethook was called for blocks 1 and 2.
C12_HookedTwoBlocks ==
    /\ packethook
    /\ Len(hooked) = 2
    /\ hooked[2].blocknumber = 2
    /\ DupCount(dups) = 1
    /\ recvd.kind = "datagram"
    /\ recvd.raddress # address

\* The mapping given to the encoder has no empty name and no empty value.
NoEmptyString(m) == \A k \in DOMAIN m : k # <<>> /\ m[k].v # <<>>

\* C13: for an option mapping whose names and values are non-empty strings
\* without NUL (the empty mapping included), decoding the bytes made by
\* encoding it returns the same mapping.
C13_RoundTripNonEmpty ==
    pkt.stage = "decoded" /\ NoEmptyString(pkt.given)
        => pkt.exc = "" /\ pkt.options = pkt.given

\* C13 scenario: blksize and tsize, both with values, came back from the
\* decoder unchanged.
C13_TwoOptionsDecoded ==
    /\ pkt.stage = "decoded"
    /\ DOMAIN pkt.given = {S_blksize, S_tsize}
    /\ NoEmptyString(pkt.given)
    /\ pkt.options = pkt.given

\* C13 as stated: the round trip for names and values of any length, the
\* empty string included.
C13_RoundTripAnyLength ==
    pkt.stage = "decoded" => pkt.exc = "" /\ pkt.options = pkt.given

C15_FailedNegotiationSendsErr ==
    [][ /\ ReceivesFromPeer("OACK")
        /\ state = "rrq"
        /\ \/ ~Acceptable(parse(recvd'.buffer).options, options)
           \/ "True" \notin match_options(parse(recvd'.buffer).options, options)
        => /\ sock'.sent = Append(sock.sent, [buf |-> EncodeERR(8), port |-> rport'])
           /\ state' = "err"
           /\ pc' = "raised" ]_vars

\* C15 scenario: the matching rejected the OACK; the download was aborted in
\* state oack and the RRQ is still the only datagram sent.
C15_RejectedWithoutErr ==
    /\ LastFromPeer("OACK")
    /\ pc = "raised"
    /\ exc = "TftpException: Unsupported option"
    /\ state = "oack"
    /\ Len(sock.sent) = 1

C17_BudgetPerBlock ==
    /\ (\A b \in DOMAIN dups : dups[b] < MAX_DUPS) => exc # E_dups
    /\ exc = E_dups => dups[curblock] = MAX_DUPS
    /\ pc # "idle" =>
          Len(sock.sent) = 1 + curblock + DupCount(dups) - (IF exc = E_dups THEN 1 ELSE 0)
    /\ \A b \in DOMAIN dups :
          CountAcks(b) = (IF b = 0 THEN 0 ELSE 1) + dups[b]
                         - (IF exc = E_dups /\ b = curblock THEN 1 ELSE 0)

\* C17 witness: the download is still running after 19 duplicates of each of
\* two blocks, 38 in all, each answered.
C17_ManyDuplicatesNoFailure ==
    /\ pc = "recvfrom"
    /\ curblock = 1
    /\ DOMAIN dups = {0, 1}
    /\ dups[0] = MAX_DUPS - 1
    /\ dups[1] = MAX_DUPS - 1
    /\ DupCount(dups) > MAX_DUPS
    /\ CountAcks(1) = MAX_DUPS

\* C18: an ACK, a WRQ, an RRQ or an ERR of the peer ends the download at once
\* with an exception: nothing is sent in answer, nothing is written, and after
\* the exception no event is handled any more.
C18_FatalPacketAborts ==
    [][ /\ (\E C \in {"ACK", "WRQ", "RRQ", "ERR"} : ReceivesFromPeer(C))
           => /\ pc' = "raised"
              /\ exc' # ""
              /\ sock' = sock
              /\ outputfile' = outputfile
              /\ curblock' = curblock
        /\ pc = "raised" => UNCHANGED vars ]_vars

\* C18 witness: block 1 was accepted, then an ERR of the peer ended the
\* download; the file holds block 1 and the last datagram sent is ACK 1.
C18_ErrAfterBlockOne ==
    /\ LastFromPeer("ERR")
    /\ pc = "raised"
    /\ Len(accepted) = 1
    /\ outputfile.data = WireData(accepted[1])
    /\ Len(sock.sent) = 2
    /\ sock.sent[2].buf = EncodeACK(1)

\* C19: the receive loop is left through its end-of-file exit (the output
\* file is then closed) exactly in the step that accepts a DAT block with
\* less data than options['blksize'], a block without data included; an
\* accepted block of exactly that size leaves the loop running. The last
\* datagram sent is the ACK of the final block, and once the call has ended
\* no event is handled and nothing is sent.
C19_EndsAtFirstShortBlock ==
    [][ /\ ReceivesFromPeer("DAT") /\ curblock' = curblock + 1
           => /\ outputfile'.closed
                 <=> Len(parse(recvd'.buffer).data) < options[S_blksize].v
              /\ pc' = "recvfrom"
                 <=> Len(parse(recvd'.buffer).data) >= options[S_blksize].v
              /\ sock'.sent = Append(sock.sent, [buf |-> EncodeACK(curblock + 1),
                                                 port |-> rport'])
        /\ pc = "recvfrom" /\ outputfile'.closed
           => ReceivesFromPeer("DAT") /\ curblock' = curblock + 1
        /\ pc \in {"returned", "raised"} => UNCHANGED vars ]_vars

\* C19 witness: with blksize 8 a block of 8 bytes was accepted and the loop
\* went on; the second block had no data and ended the download, and ACK 2 is
\* the last datagram sent.
C19_EmptyFinalBlock ==
    /\ pc = "returned"
    /\ outputfile.closed
    /\ options[S_blksize] = IntVal(MIN_BLKSIZE)
    /\ Len(accepted) = 2
    /\ Len(WireData(accepted[1])) = MIN_BLKSIZE
    /\ Len(WireData(accepted[2])) = 0
    /\ sock.sent[Len(sock.sent)].buf = EncodeACK(2)

\* C20: every call of download starts with no remote port learned, whatever
\* an earlier call on the same client learned.
C20_CallStartsUnbound ==
    [][ pc # "recvfrom" /\ pc' = "recvfrom" => rport' = NoPort ]_vars

\* C20 scenario: a later call (the error counter of an earlier one is still 1)
\* has sent its RRQ and nothing else; the first reply, DAT 1 from another port
\* of the server, was dropped because of the port the earlier call learned.
C20_ReplyOfLaterCallDropped ==
    /\ pc = "recvfrom"
    /\ state = "rrq"
    /\ errors = 1
    /\ rport = Peer[2]
    /\ Len(sock.sent) = 1
    /\ accepted = <<>>
    /\ recvd.kind = "datagram"
    /\ recvd.raddress = address
    /\ recvd.rport # rport
    /\ parse(recvd.buffer).cls = "DAT"
    /\ parse(recvd.buffer).blocknumber = 1

\* C21: block numbers do not wrap. The last block acknowledged never passes
\* 65535; once it is 65535 no DAT is accepted any more; a DAT of the peer with
\* block number 0 is then a fatal sequence error that sends nothing; and every
\* datagram the client sends from there on is the ACK of a block number within
\* 16 bits, the last block acknowledged.
C21_NoWraparound ==
    [][ /\ curblock' <= MaxU16
        /\ curblock = MaxU16 => curblock' = curblock /\ outputfile' = outputfile
        /\ (/\ ReceivesFromPeer("DAT")
            /\ curblock = MaxU16
            /\ parse(recvd'.buffer).blocknumber = 0)
           => pc' = "raised" /\ exc' = E_block /\ sock' = sock
        /\ sock' # sock
           => /\ U16ok(curblock')
              /\ sock'.sent = Append(sock.sent, [buf |-> EncodeACK(curblock'),
                                                 port |-> rport]) ]_vars

\* C21 witness: block 65535 was accepted and acknowledged, then the peer's
\* DAT with block number 0 ended the download.
C21_BlockZeroAfterLast ==
    /\ curblock = MaxU16
    /\ pc = "raised"
    /\ exc = E_block
    /\ LastFromPeer("DAT")
    /\ parse(recvd.buffer).blocknumber = 0
    /\ sock.sent[Len(sock.sent)].buf = <<0, 4, 255, 255>>

\* C22: a datagram the client sends in the loop is either the ACK of a block
\* n >= 1 that has been accepted, or ACK 0 in answer to an OACK of the peer;
\* a DAT with block number 0 that comes before any block was accepted is
\* answered with nothing.
C22_AcksOnlyAnswerBlocksAndOacks ==
    [][ /\ pc = "recvfrom" /\ sock' # sock
           => \/ \E n \in 1..Len(accepted') :
                    sock'.sent[Len(sock'.sent)].buf = EncodeACK(n)
              \/ /\ sock'.sent[Len(sock'.sent)].buf = EncodeACK(0)
                 /\ ReceivesFromPeer("OACK")
        /\ (/\ ReceivesFromPeer("DAT")
            /\ accepted = <<>>
            /\ parse(recvd'.buffer).blocknumber = 0)
           => sock' = sock ]_vars

\* C22 scenario: nothing was accepted, no OACK came, and the peer's DAT with
\* block number 0 was counted as a duplicate and answered with ACK 0.
C22_AckZeroForBlockZero ==
    /\ pc = "recvfrom"
    /\ accepted = <<>>
    /\ curblock = 0
    /\ state = "rrq"
    /\ LastFromPeer("DAT")
    /\ parse(recvd.buffer).blocknumber = 0
    /\ DOMAIN dups = {0}
    /\ Len(sock.sent) = 2
    /\ sock.sent[2].buf = EncodeACK(0)

\* C23: in a download the last block acknowledged never goes down and goes up
\* by one exactly when a block is accepted; and the block numbers of the ACKs
\* sent never go down and go up by at most one from an ACK to the next.
C23_Lockstep ==
    [][ /\ curblock' \in {curblock, curblock + 1}
        /\ curblock' = curblock + 1 <=> Len(accepted') = Len(accepted) + 1
        /\ (pc = "recvfrom" /\ sock' # sock /\ Len(sock.sent) >= 2)
           => (WireBlock(sock'.sent[Len(sock'.sent)].buf)
               - WireBlock(sock.sent[Len(sock.sent)].buf)) \in {0, 1} ]_vars

\* C23 scenario: block 1 was accepted and acknowledged, then an OACK of the
\* peer was answered with ACK 0: the ACKs sent are 1, 0.
C23_AckZeroAfterAckOne ==
    /\ pc = "recvfrom"
    /\ curblock = 1
    /\ LastFromPeer("OACK")
    /\ Len(sock.sent) = 3
    /\ sock.sent[2].buf = EncodeACK(1)
    /\ sock.sent[3].buf = EncodeACK(0)

\* C24: in a download the remote port, once learned, never changes; it is
\* learned from the first datagram of the remote host that the loop handles
\* (one that parses, from the host's address), as that datagram's source port;
\* the RRQ goes to the configured port, and every datagram sent after it goes
\* to the learned port, so none is sent while no port is learned.
C24_PortLearnedOnce ==
    [][ /\ rport # NoPort => rport' = rport
        /\ rport' # rport => recvd'.kind = "datagram" /\ rport' = recvd'.rport
        /\ (/\ pc = "recvfrom"
            /\ rport = NoPort
            /\ recvd'.kind = "datagram"
            /\ recvd'.raddress = address
            /\ parse(recvd'.buffer).exc = "")
           => rport' = recvd'.rport
        /\ Len(sock'.sent) >= 1
           => /\ sock'.sent[1] = [buf |-> EncodeRRQ(S_file, options), port |-> port]
              /\ \A i \in 2..Len(sock'.sent) :
                    /\ sock'.sent[i].port = rport'
                    /\ rport' # NoPort
                    /\ sock'.sent[i].buf[2] \in {4, 5} ]_vars

\* C24 witness: the port of the peer was learned and two ACKs went to it;
\* then a datagram from another port of the same host was dropped, and the
\* learned port is still the peer's.
C24_AcksToLearnedPort ==
    /\ pc = "recvfrom"
    /\ rport = Peer[2]
    /\ Len(sock.sent) = 3
    /\ sock.sent[1].port = port
    /\ sock.sent[2].port = Peer[2]
    /\ sock.sent[3].port = Peer[2]
    /\ recvd.kind = "datagram"
    /\ recvd.raddress = address
    /\ recvd.rport # Peer[2]

\* C25: every download ends, by returning or with an exception, whatever
\* receive events the network goes on delivering.
C25_DownloadEnds == <>(pc \in {"returned", "raised"})

\* C25 scenario: the loop is waiting again after it dropped a datagram of
\* another sender; no timeout has been counted and nothing marks the drop.
C25_WaitingAfterStray ==
    /\ pc = "recvfrom"
    /\ recvd.kind = "datagram"
    /\ Discarded(recvd.raddress, recvd.rport)
    /\ timeouts = 0
    /\ errors = 0
    /\ DOMAIN dups = {}

====
